---- MODULE Spec2Model ----
(***************************************************************************)
(* A model of neuralHFT's wrapper/stage pipeline and of the utilities it   *)
(* rests on: RunningStatistics and FillDeque (neural/utils/base.py), the   *)
(* reward wrappers (generator, normalizer, liability interest and the      *)
(* reward shapers of neural/wrapper/reward.py), the pipes                  *)
(* (neural/meta/pipe.py) and the trainer's environment construction        *)
(* (neural/train/base.py).                                                 *)
(*                                                                         *)
(* Floating point numbers are modelled as exact rationals <<n, d>>, d > 0, *)
(* in lowest terms.  Python's None is the empty tuple.  An exception       *)
(* raised by a call is recorded by name in the variable "raised"; the      *)
(* assignments the call made before raising are kept, as in Python.        *)
(***************************************************************************)
EXTENDS Integers, Sequences, FiniteSets, TLC

VARIABLES
    stats,          \* the RunningStatistics object (its attributes)
    owner,          \* who constructed it: "none", "direct", "normalizer"
    raised,         \* exception raised by the last call on it, or "none"
    calls,          \* arguments of the update calls made so far, in order
    steps,          \* number of RewardNormalizerWrapper.reward calls
    returned,       \* value the last reward call returned (None if it raised)
    ctor,           \* arguments and outcome of the last constructor call
    succeeded,      \* number of update calls that returned without raising
    read,           \* the last read of the engine since its last update
    fd,             \* the FillDeque object
    appended,       \* items appended since construction or the last clear
    clears,         \* number of clear calls made
    fd_raised,      \* exception raised by the FillDeque constructor
    fd_arg,         \* <<buffer_size>> the last constructor call was passed
    equity_history, \* the metadata wrapper's list the reward generator reads
    gen_called,     \* the generator's reward ran on the current history
    gen_in,         \* the reward it was passed
    gen_reward,     \* <<value>> it returned, None if it raised
    gen_raised,     \* exception it raised, or "none"
    pipe_obj,       \* the MarginAccountPipe object
    chain,          \* wrappers pipe() has put around the base env, innermost first
    pipe_raised,    \* exception pipe() raised, or "none"
    pipe_returned,  \* what pipe() returned: "unset", "None" or "env"
    min_action,     \* what pipe() passed the min trade filter as min_action
    step_phase,     \* "idle", "down" (action travels inward), "up" (results return)
    step_pos,       \* index in chain of the wrapper that acts next
    applied,        \* action stages applied to the agent's action, in order
    obs_applied,    \* observation stages applied to the raw observation, in order
    rew_applied,    \* reward stages applied to the raw reward, in order
    signal,         \* the action the agent proposed in this step
    sim_steps,      \* number of actions the base simulator has received
    trainer,        \* the trainer object (its configuration and data feeders)
    engines,        \* heap of RunningStatistics objects, by identity
    pipes,          \* heap of pipe objects, by identity; pipes[1] is the agent's
    n_feeders,      \* number of data feeder objects created so far
    workers,        \* env_callables: the (pipe, env) pair each callable binds
    trainer_raised, \* exception the last trainer call raised, or "none"
    updated,        \* identity of the pipe whose engine the last update went to
    n_updates,      \* number of updates made through pipes
    li,             \* the LiabilityInterstRewardWrapper object
    day,            \* market_metadata_wrapper.day
    cash,           \* market_metadata_wrapper.cash
    asset_quantities, \* market_metadata_wrapper.asset_quantities
    li_call,        \* the wrapper's last reward call on the current account state
    shaper,         \* the reward shaper object
    shaper_ctor,    \* arguments and outcome of the last shaper constructor call
    dr_call,        \* the last evaluation of deviation_ratio and check_condition
    ep_pc,          \* where the episode loops are: "idle", "loop", "step"
    ep_left,        \* <<warmup episodes left, episodes left>> in the loops
    ep_random,      \* random_actions of the running episode
    ep_steps,       \* steps issued in the running episode
    ep_log,         \* calls made on the env: "reset", "step", "done"
    rw_stage,       \* the reward stage that acts next on the step's reward
    rw_reward,      \* <<reward>> as it stands between the stages
    rw_before,      \* the account as the env's step or reset left it
    rw_steps,       \* env steps taken through the reward stages
    trader,         \* the AbstractTrader: its flag and its schedule
    clock,          \* <<day, time>> that datetime.utcnow() returns
    ct_call,        \* the last call of _check_time
    dm_call         \* the last check_condition of the dynamic margin shaper

vars == <<stats, owner, raised, calls, steps, returned, ctor, succeeded, read,
          fd, appended, clears, fd_raised, fd_arg,
          equity_history, gen_called, gen_in, gen_reward, gen_raised,
          pipe_obj, chain, pipe_raised, pipe_returned, min_action,
          step_phase, step_pos,
          applied, obs_applied, rew_applied, signal, sim_steps,
          trainer, engines, pipes, n_feeders, workers, trainer_raised,
          updated, n_updates,
          li, day, cash, asset_quantities, li_call,
          shaper, shaper_ctor, dr_call,
          ep_pc, ep_left, ep_random, ep_steps, ep_log,
          rw_stage, rw_reward, rw_before, rw_steps,
          trader, clock, ct_call, dm_call>>

statsVars == <<stats, owner, raised, calls, steps, returned, ctor, succeeded,
               read>>
dequeVars == <<fd, appended, clears, fd_raised, fd_arg>>

\* what the operations of one component leave alone
genVars == <<equity_history, gen_called, gen_in, gen_reward, gen_raised>>
pipeVars == <<pipe_obj, chain, pipe_raised, pipe_returned, min_action,
              step_phase, step_pos,
              applied, obs_applied, rew_applied, signal, sim_steps>>
trainVars == <<trainer, engines, pipes, n_feeders, workers, trainer_raised,
               updated, n_updates>>
interestVars == <<li, day, cash, asset_quantities, li_call>>
shaperVars == <<shaper, shaper_ctor, dr_call, dm_call>>
episodeVars == <<ep_pc, ep_left, ep_random, ep_steps, ep_log>>
stageVars == <<rw_stage, rw_reward, rw_before, rw_steps>>
traderVars == <<trader, clock, ct_call>>
notStats == <<dequeVars, genVars, pipeVars, trainVars, interestVars, shaperVars,
              episodeVars, stageVars, traderVars>>
notDeque == <<statsVars, genVars, pipeVars, trainVars, interestVars, shaperVars,
              episodeVars, stageVars, traderVars>>
notGen == <<statsVars, dequeVars, pipeVars, trainVars, interestVars, shaperVars,
            episodeVars, stageVars, traderVars>>
notPipe == <<statsVars, dequeVars, genVars, trainVars, interestVars, shaperVars,
             episodeVars, stageVars, traderVars>>
notTrain == <<statsVars, dequeVars, genVars, pipeVars, interestVars, shaperVars,
              episodeVars, stageVars, traderVars>>
notInterest == <<statsVars, dequeVars, genVars, pipeVars, trainVars, shaperVars,
                 episodeVars, stageVars, traderVars>>
notShaper == <<statsVars, dequeVars, genVars, pipeVars, trainVars, interestVars,
               episodeVars, stageVars, traderVars>>
notEpisode == <<statsVars, dequeVars, genVars, pipeVars, trainVars, interestVars,
                shaperVars, stageVars, traderVars>>
\* the reward stages act on the account, the interest wrapper and the engine
notStages == <<dequeVars, pipeVars, trainVars, shaperVars, episodeVars,
               traderVars,
               gen_called, gen_in, gen_reward, gen_raised, li_call,
               owner, raised, calls, steps, returned, ctor, succeeded, read>>

\* ------------------------------------------------------------- bounds

MaxUpdates == 3
MaxAppends == 4
MaxBufferSize == 3
MaxClears == 2
MaxHistory == 3
MaxSimSteps == 2
MaxEnvs == 3
MaxPipeUpdates == 2
SqrtScale == 1000
MaxDay == 3
MaxEpisodes == 3
MaxEpisodeSteps == 3
MaxStageSteps == 2
MaxTradeDay == 2
MaxTradeTime == 3

\* ---------------------------------------------------------- rationals

None == <<>>

RECURSIVE GCD(_, _)
GCD(a, b) == IF b = 0 THEN a ELSE GCD(b, a % b)

Abs(n) == IF n < 0 THEN -n ELSE n

Rat(n, d) ==
    LET g == GCD(Abs(n), Abs(d))
        s == IF d < 0 THEN -1 ELSE 1
    IN  <<s * (n \div g), s * (d \div g)>>

Int2Rat(n) == <<n, 1>>
RAdd(p, q) == Rat(p[1] * q[2] + q[1] * p[2], p[2] * q[2])
RSub(p, q) == Rat(p[1] * q[2] - q[1] * p[2], p[2] * q[2])
RMul(p, q) == Rat(p[1] * q[1], p[2] * q[2])
RDiv(p, q) == Rat(p[1] * q[2], p[2] * q[1])
RLess(p, q) == p[1] * q[2] < q[1] * p[2]
RLeq(p, q) == p[1] * q[2] <= q[1] * p[2]
RMin(p, q) == IF RLeq(p, q) THEN p ELSE q
RMax(p, q) == IF RLeq(p, q) THEN q ELSE p
RNeg(p) == <<-p[1], p[2]>>
Zero == Int2Rat(0)

\* np.inf and -np.inf: rationals beyond every value of the model
Inf == <<1, 0>>
NegInf == <<-1, 0>>

\* ------------------------------------------------- RunningStatistics

\* an np.ndarray argument: its shape and its (single) element
Shapes == {"()", "(1,)"}
Values == {1, 2, 4}
Arrays == [shape : Shapes, v : {Int2Rat(x) : x \in Values}]

\* constructor arguments: epsilon and clip_threshold (Inf is the default)
Epsilons == {Int2Rat(-1), Zero, <<1, 100000000>>}
ClipThresholds == {Int2Rat(-1), Zero, Int2Rat(2), Inf}

Unconstructed ==
    [epsilon |-> None, clip_threshold |-> None, shape |-> "None",
     minimum |-> None, maximum |-> None, mean |-> None, std |-> None,
     M2 |-> None, count |-> None]

\* RunningStatistics.__init__: the two checks, then the attributes
InitRaises(epsilon, clip_threshold) ==
    \/ RLess(Zero, clip_threshold)
    \/ RLess(Zero, epsilon)

NewStatistics(epsilon, clip_threshold) ==
    [Unconstructed EXCEPT !.epsilon = epsilon,
                          !.clip_threshold = clip_threshold]

\* `not self.count': None and 0 are falsy
NotCount(s) == s.count = None \/ s.count = <<0>>

\* assignment to the attribute "minimum" or "maximum": both are properties
\* declared with a getter only, so the assignment raises and stores nothing
SetMinimum(s, v) == [s |-> s, exc |-> "AttributeError"]
SetMaximum(s, v) == [s |-> s, exc |-> "AttributeError"]

\* the getters
GetMinimum(s) ==
    IF NotCount(s) THEN [v |-> None, exc |-> "AssertionError"]
    ELSE [v |-> s.minimum, exc |-> "none"]

GetMaximum(s) ==
    IF NotCount(s) THEN [v |-> None, exc |-> "AssertionError"]
    ELSE [v |-> s.minimum, exc |-> "none"]

GetMean(s) ==
    IF NotCount(s) THEN [v |-> None, exc |-> "AssertionError"]
    ELSE [v |-> s.mean, exc |-> "none"]

\* the variance the std getter takes the square root of
Variance(s) ==
    IF s.count[1] > 1 THEN RDiv(s.M2, Int2Rat(s.count[1] - 1)) ELSE Zero

InitializeStatistics(s, array) ==
    LET s1 == [s EXCEPT !.shape = array.shape, !.mean = Zero, !.M2 = Zero,
                        !.count = <<0>>]
        r1 == SetMinimum(s1, Inf)
    IN  IF r1.exc # "none" THEN r1 ELSE SetMaximum(r1.s, NegInf)

\* lines 377-381: Welford's step
Welford(s, x) ==
    LET count == s.count[1] + 1
        delta == RSub(x, s.mean)
        mean == RAdd(s.mean, RDiv(delta, Int2Rat(count)))
        delta2 == RSub(x, mean)
    IN  [s EXCEPT !.count = <<count>>, !.mean = mean,
                  !.M2 = RAdd(s.M2, RMul(delta, delta2))]

\* lines 383-384: np.minimum(None, array) raises TypeError
UpdateExtremes(s, x) ==
    LET g1 == GetMinimum(s)
    IN  IF g1.exc # "none" THEN [s |-> s, exc |-> g1.exc]
        ELSE IF g1.v = None THEN [s |-> s, exc |-> "TypeError"]
        ELSE LET r1 == SetMinimum(s, RMin(g1.v, x))
             IN  IF r1.exc # "none" THEN r1
                 ELSE LET g2 == GetMaximum(r1.s)
                      IN  IF g2.exc # "none" THEN [s |-> r1.s, exc |-> g2.exc]
                          ELSE IF g2.v = None
                                 THEN [s |-> r1.s, exc |-> "TypeError"]
                          ELSE SetMaximum(r1.s, RMax(g2.v, x))

Update_CheckAfterStep(s, array) ==
    LET r0 == IF s.shape = "None" THEN InitializeStatistics(s, array)
              ELSE [s |-> s, exc |-> "none"]
    IN  IF r0.exc # "none" THEN r0
        ELSE LET w == Welford(r0.s, array.v)
             IN  IF r0.s.shape # array.shape
                   THEN [s |-> w, exc |-> "AssertionError"]
                 ELSE UpdateExtremes(w, array.v)

Update(s, array) ==
    LET r0 == IF s.shape = "None" THEN InitializeStatistics(s, array)
              ELSE [s |-> s, exc |-> "none"]
    IN  IF r0.exc # "none" THEN r0
        ELSE IF r0.s.shape # array.shape
               THEN [s |-> r0.s, exc |-> "AssertionError"]
        ELSE UpdateExtremes(Welford(r0.s, array.v), array.v)

\* np.sqrt on a non-negative rational, to 1/SqrtScale (floating point rounds too)
RECURSIVE ISqrtIn(_, _, _)
ISqrtIn(n, lo, hi) ==
    IF lo >= hi THEN lo
    ELSE LET mid == (lo + hi + 1) \div 2
         IN  IF mid * mid <= n THEN ISqrtIn(n, mid, hi)
             ELSE ISqrtIn(n, lo, mid - 1)

\* the search stays where mid * mid fits 32-bit integers
ISqrt(n) == ISqrtIn(n, 0, IF n < 46340 THEN n ELSE 46340)

Sqrt(q) == Rat(ISqrt((q[1] * SqrtScale * SqrtScale) \div q[2]), SqrtScale)

GetStd(s) ==
    IF NotCount(s) THEN [v |-> None, exc |-> "AssertionError"]
    ELSE [v |-> Sqrt(Variance(s)), exc |-> "none"]

\* the std getter stores what it returns in self._std
StdCached(s) ==
    IF GetStd(s).exc = "none" THEN [s EXCEPT !.std = GetStd(s).v] ELSE s

\* numpy division: x/0 is nan for x = 0 and +-inf otherwise, no exception
NaN == <<0, 0>>
NpDiv(p, q) ==
    IF q[1] = 0
      THEN (IF p[1] = 0 THEN NaN ELSE IF p[1] > 0 THEN Inf ELSE NegInf)
      ELSE RDiv(p, q)

\* np.clip(a, lo, hi) = minimum(maximum(a, lo), hi); nan stays nan
NpClip(a, lo, hi) ==
    IF a = NaN THEN NaN ELSE RMin(RMax(a, lo), hi)

Normalize(s, array) ==
    LET m == GetMean(s)
        d == GetStd(s)
    IN  IF m.exc # "none" THEN [v |-> None, exc |-> m.exc]
        ELSE IF d.exc # "none" THEN [v |-> None, exc |-> d.exc]
        ELSE [v |-> NpClip(NpDiv(RSub(array.v, m.v), RAdd(d.v, s.epsilon)),
                           RNeg(s.clip_threshold), s.clip_threshold),
              exc |-> "none"]

\* RewardNormalizerWrapper.reward: update, then normalize
NormalizerReward(s, reward) ==
    LET u == Update(s, reward)
    IN  IF u.exc # "none" THEN [s |-> u.s, v |-> None, exc |-> u.exc]
        ELSE LET n == Normalize(u.s, reward)
             IN  [s |-> StdCached(u.s), v |-> n.v, exc |-> n.exc]

\* a read of the engine: one of the four properties, or normalize(array)
ReadAttributes == {"mean", "std", "minimum", "maximum", "normalize"}

NoArray == [shape |-> "None", v |-> None]
NoRead == [attr |-> "none", x |-> NoArray, v |-> None, exc |-> "none"]

ReadResult(s, attr, array) ==
    CASE attr = "mean" -> GetMean(s)
      [] attr = "std" -> GetStd(s)
      [] attr = "minimum" -> GetMinimum(s)
      [] attr = "maximum" -> GetMaximum(s)
      [] attr = "normalize" -> Normalize(s, array)

\* what normalize may be passed: any array, the engine's own mean included
NormalizeArguments(s) ==
    Arrays \cup (IF s.mean = None THEN {}
                 ELSE {[shape |-> s.shape, v |-> s.mean]})

\* ------------------------------------------------ actions: statistics

RunningStatistics_init ==
    /\ owner = "none"
    /\ \E epsilon \in Epsilons, clip_threshold \in ClipThresholds :
         IF InitRaises(epsilon, clip_threshold)
           THEN /\ raised' = "AssertionError"
                /\ ctor' = <<[epsilon |-> epsilon,
                             clip_threshold |-> clip_threshold,
                             exc |-> "AssertionError"]>>
                /\ UNCHANGED <<stats, owner>>
           ELSE /\ stats' = NewStatistics(epsilon, clip_threshold)
                /\ owner' = "direct"
                /\ raised' = "none"
                /\ ctor' = <<[epsilon |-> epsilon,
                             clip_threshold |-> clip_threshold,
                             exc |-> "none"]>>
    /\ UNCHANGED <<calls, steps, returned, succeeded, read>>
    /\ UNCHANGED notStats

\* RewardNormalizerWrapper.__init__ constructs the engine from its arguments
RewardNormalizerWrapper_init ==
    /\ owner = "none"
    /\ \E epsilon \in Epsilons, clip_threshold \in ClipThresholds :
         IF InitRaises(epsilon, clip_threshold)
           THEN /\ raised' = "AssertionError"
                /\ ctor' = <<[epsilon |-> epsilon,
                             clip_threshold |-> clip_threshold,
                             exc |-> "AssertionError"]>>
                /\ UNCHANGED <<stats, owner>>
           ELSE /\ stats' = NewStatistics(epsilon, clip_threshold)
                /\ owner' = "normalizer"
                /\ raised' = "none"
                /\ ctor' = <<[epsilon |-> epsilon,
                             clip_threshold |-> clip_threshold,
                             exc |-> "none"]>>
    /\ UNCHANGED <<calls, steps, returned, succeeded, read>>
    /\ UNCHANGED notStats

RunningStatistics_update ==
    /\ owner = "direct"
    /\ Len(calls) < MaxUpdates
    /\ \E array \in Arrays :
         LET r == Update(stats, array)
         IN  /\ stats' = r.s
             /\ raised' = r.exc
             /\ calls' = Append(calls, array)
             /\ succeeded' = IF r.exc = "none" THEN succeeded + 1
                             ELSE succeeded
    /\ read' = NoRead
    /\ UNCHANGED <<owner, steps, returned, ctor>>
    /\ UNCHANGED notStats

RewardNormalizerWrapper_reward ==
    /\ owner = "normalizer"
    /\ steps < MaxUpdates
    /\ \E reward \in {a \in Arrays : a.shape = "()"} :
         LET r == NormalizerReward(stats, reward)
         IN  /\ stats' = r.s
             /\ raised' = r.exc
             /\ returned' = r.v
             /\ calls' = Append(calls, reward)
             /\ succeeded' = IF Update(stats, reward).exc = "none"
                               THEN succeeded + 1 ELSE succeeded
    /\ steps' = steps + 1
    /\ read' = NoRead
    /\ UNCHANGED <<owner, ctor>>
    /\ UNCHANGED notStats

\* a caller reads mean, std, minimum or maximum, or calls normalize
RunningStatistics_read ==
    /\ owner # "none"
    /\ \E attr \in ReadAttributes :
       \E array \in IF attr = "normalize" THEN NormalizeArguments(stats)
                    ELSE {NoArray} :
         LET r == ReadResult(stats, attr, array)
         IN  /\ read' = [attr |-> attr, x |-> array, v |-> r.v, exc |-> r.exc]
             /\ stats' = IF attr = "std" \/ (attr = "normalize"
                                             /\ GetMean(stats).exc = "none")
                           THEN StdCached(stats) ELSE stats
    /\ UNCHANGED <<owner, raised, calls, steps, returned, ctor, succeeded>>
    /\ UNCHANGED notStats

StatsInit ==
    /\ stats = Unconstructed
    /\ owner = "none"
    /\ raised = "none"
    /\ calls = <<>>
    /\ steps = 0
    /\ returned = None
    /\ ctor = None
    /\ succeeded = 0
    /\ read = NoRead

StatsNext ==
    \/ RunningStatistics_init
    \/ RewardNormalizerWrapper_init
    \/ RunningStatistics_update
    \/ RewardNormalizerWrapper_reward
    \/ RunningStatistics_read


\* ---------------------------------------------------------- FillDeque

Items == {5, 7}

NoDeque == [constructed |-> FALSE, buffer_size |-> 0, buffer |-> <<>>]

\* collections.deque(maxlen=n).append(x): at its maximum length the deque
\* discards from the left end
DequeAppend(buffer, maxlen, item) ==
    IF maxlen = 0 THEN buffer
    ELSE IF Len(buffer) = maxlen THEN Append(Tail(buffer), item)
    ELSE Append(buffer, item)

\* `for _ in range(n): self.buffer.append(item)'
RECURSIVE RepeatAppend(_, _, _, _)
RepeatAppend(buffer, maxlen, item, n) ==
    IF n <= 0 THEN buffer
    ELSE RepeatAppend(DequeAppend(buffer, maxlen, item), maxlen, item, n - 1)

\* a variant that pushes a later item at the left end
FillDequeAppend_Left(f, item) ==
    IF f.buffer = <<>>
      THEN [f EXCEPT !.buffer =
                RepeatAppend(f.buffer, f.buffer_size, item, f.buffer_size)]
      ELSE [f EXCEPT !.buffer =
                IF f.buffer_size = 0 THEN <<>>
                ELSE <<item>> \o SubSeq(f.buffer, 1, Len(f.buffer) - 1)]

\* a variant without the bootstrap fill
FillDequeAppend_NoFill(f, item) ==
    [f EXCEPT !.buffer = DequeAppend(f.buffer, f.buffer_size, item)]

FillDequeAppend(f, item) ==
    IF f.buffer = <<>>
      THEN [f EXCEPT !.buffer =
                RepeatAppend(f.buffer, f.buffer_size, item, f.buffer_size)]
      ELSE [f EXCEPT !.buffer = DequeAppend(f.buffer, f.buffer_size, item)]

FillDequeClear(f) == [f EXCEPT !.buffer = <<>>]

\* a variant that refuses every capacity below 1
DequeRaises_BelowOne(maxlen) == maxlen < 1

\* deque(maxlen=n) raises ValueError for a negative n
DequeRaises(maxlen) == maxlen < 0

FillDeque_init ==
    /\ ~fd.constructed
    /\ \E buffer_size \in -1..MaxBufferSize :
         /\ fd_arg' = <<buffer_size>>
         /\ IF DequeRaises(buffer_size)
              THEN /\ fd_raised' = "ValueError"
                   /\ UNCHANGED fd
              ELSE /\ fd' = [constructed |-> TRUE,
                             buffer_size |-> buffer_size, buffer |-> <<>>]
                   /\ fd_raised' = "none"
    /\ UNCHANGED <<appended, clears>>
    /\ UNCHANGED notDeque

FillDeque_append ==
    /\ fd.constructed
    /\ Len(appended) < MaxAppends
    /\ \E item \in Items :
         /\ fd' = FillDequeAppend(fd, item)
         /\ appended' = Append(appended, item)
    /\ UNCHANGED <<clears, fd_raised, fd_arg>>
    /\ UNCHANGED notDeque

FillDeque_clear ==
    /\ fd.constructed
    /\ clears < MaxClears
    /\ fd' = FillDequeClear(fd)
    /\ appended' = <<>>
    /\ clears' = clears + 1
    /\ UNCHANGED <<fd_raised, fd_arg>>
    /\ UNCHANGED notDeque

DequeInit ==
    /\ fd = NoDeque
    /\ appended = <<>>
    /\ clears = 0
    /\ fd_raised = "none"
    /\ fd_arg = None

DequeNext ==
    \/ FillDeque_init
    \/ FillDeque_append
    \/ FillDeque_clear

\* ------------------------------------------------ RewardGeneratorWrapper

Equities == {900, 1000, 1050}
RawRewards == {0, 7}

\* Python's seq[-k]: IndexError when the list has fewer than k items
NegIndex(seq, k) ==
    IF k > Len(seq) THEN [v |-> None, exc |-> "IndexError"]
    ELSE [v |-> <<seq[Len(seq) - k + 1]>>, exc |-> "none"]

\* a variant that subtracts the first entry of the history
RewardGeneratorReward_First(history, reward) ==
    LET a == NegIndex(history, 1)
    IN  IF a.exc # "none" \/ Len(history) < 2
          THEN [v |-> None, exc |-> "IndexError"]
          ELSE [v |-> <<a.v[1] - history[1]>>, exc |-> "none"]

\* RewardGeneratorWrapper.reward
RewardGeneratorReward(history, reward) ==
    LET a == NegIndex(history, 1)
        b == NegIndex(history, 2)
    IN  IF a.exc # "none" THEN [v |-> None, exc |-> a.exc]
        ELSE IF b.exc # "none" THEN [v |-> None, exc |-> b.exc]
        ELSE [v |-> <<a.v[1] - b.v[1]>>, exc |-> "none"]

\* the account's reset leaves one entry in the history
Account_reset ==
    /\ \E equity \in Equities : equity_history' = <<equity>>
    /\ gen_called' = FALSE
    /\ UNCHANGED <<gen_in, gen_reward, gen_raised>>
    /\ UNCHANGED notGen

\* the account's step appends the new equity
Account_step ==
    /\ equity_history # <<>>
    /\ Len(equity_history) < MaxHistory
    /\ \E equity \in Equities : equity_history' = Append(equity_history, equity)
    /\ gen_called' = FALSE
    /\ UNCHANGED <<gen_in, gen_reward, gen_raised>>
    /\ UNCHANGED notGen

RewardGeneratorWrapper_reward ==
    /\ \E reward \in RawRewards :
         LET r == RewardGeneratorReward(equity_history, reward)
         IN  /\ gen_in' = <<reward>>
             /\ gen_reward' = r.v
             /\ gen_raised' = r.exc
    /\ gen_called' = TRUE
    /\ UNCHANGED equity_history
    /\ UNCHANGED notGen

GenInit ==
    /\ equity_history = <<>>
    /\ gen_called = FALSE
    /\ gen_in = None
    /\ gen_reward = None
    /\ gen_raised = "none"

GenNext ==
    \/ Account_reset
    \/ Account_step
    \/ RewardGeneratorWrapper_reward

\* ----------------------------------------- MarginAccountPipe and RewardPipe

\* the wrapper classes pipe.py imports, by the module they come from
BaseWrappers == {"MarginAccountMetaDataWrapper", "ConsoleTearsheetRenderWrapper"}

ActionWrappers ==
    {"MinTradeSizeActionWrapper", "IntegerAssetQuantityActionWrapper",
     "PositionCloseActionWrapper", "InitialMarginActionWrapper",
     "ExcessMarginActionWrapper", "ShortingActionWrapper",
     "EquityBasedUniformActionInterpreter", "ActionClipperWrapper"}

ObservationWrappers ==
    {"FlattenToNUmpyObservationWrapper", "ObservationBufferWrapper",
     "ObservationStackerWrapper", "ObservationNormalizerWrapper"}

RewardWrappers ==
    {"RewardGeneratorWrapper", "RewardNormalizerWrapper",
     "LiabilityInterstRewardWrapper"}

\* a variant that adds the normalizer before the stacker
ObservationPipeStack_Swapped ==
    <<"FlattenToNUmpyObservationWrapper", "ObservationBufferWrapper",
      "ObservationNormalizerWrapper", "ObservationStackerWrapper">>

\* ObservationPipe.pipe: the wrappers it adds, in the order it adds them
ObservationPipeStack ==
    <<"FlattenToNUmpyObservationWrapper", "ObservationBufferWrapper",
      "ObservationStackerWrapper", "ObservationNormalizerWrapper">>

\* a variant that adds the shorting gate before the excess margin cap
ActionWrapperStack_Swapped ==
    <<"MinTradeSizeActionWrapper", "IntegerAssetQuantityActionWrapper",
      "PositionCloseActionWrapper", "InitialMarginActionWrapper",
      "ShortingActionWrapper", "ExcessMarginActionWrapper",
      "EquityBasedUniformActionInterpreter">>

\* MarginAccountPipe.pipe, "# action wrappers": the wrappers it adds, in the
\* order it adds them (self.clip is set by __init__ and never used)
ActionWrapperStack ==
    <<"MinTradeSizeActionWrapper", "IntegerAssetQuantityActionWrapper",
      "PositionCloseActionWrapper", "InitialMarginActionWrapper",
      "ExcessMarginActionWrapper", "ShortingActionWrapper",
      "EquityBasedUniformActionInterpreter">>

\* keyword arguments RewardNormalizerWrapper.__init__ declares besides env
NormalizerParameters == {"epsilon", "clip_threshold"}

\* keyword arguments RewardPipe.pipe passes to it
NormalizerArguments == {"reward_statistics", "track_statistics"}

\* RewardPipe.pipe: wraps the generator, constructs the normalizer (a keyword
\* the constructor does not declare raises TypeError) and ends without a
\* return statement, so the caller gets None
RewardPipe_pipe(env) ==
    LET e1 == Append(env, "RewardGeneratorWrapper")
    IN  IF ~(NormalizerArguments \subseteq NormalizerParameters)
          THEN [env |-> e1, exc |-> "TypeError", ret |-> "unset"]
          ELSE [env |-> Append(e1, "RewardNormalizerWrapper"), exc |-> "none",
                ret |-> "None"]

\* MarginAccountPipe.pipe
MarginAccountPipe_pipeOf(base) ==
    LET e1 == base \o <<"MarginAccountMetaDataWrapper",
                        "ConsoleTearsheetRenderWrapper">>
        e2 == e1 \o ObservationPipeStack
        e3 == e2 \o ActionWrapperStack
        r == RewardPipe_pipe(e3)
    IN  IF r.exc # "none" THEN r
        ELSE [env |-> r.env, exc |-> "none",
              ret |-> IF r.ret = "None" THEN "None" ELSE "env"]

MinTrades == {1, 10}

\* what an attribute or argument holds: a number or a wrapper class
Number(n) == [kind |-> "number", n |-> n, class |-> "none"]
Class(c) == [kind |-> "class", n |-> 0, class |-> c]

NoPipe ==
    [constructed |-> FALSE, min_trade_arg |-> 0, integer |-> FALSE,
     min_trade |-> Number(0)]

\* MarginAccountPipe.__init__: self.min_trade = min_trade (line 125), then
\* self.min_trade = MinTradeSizeActionWrapper (line 140)
MarginAccountPipe_initOf(min_trade, integer) ==
    LET o1 == [constructed |-> TRUE, min_trade_arg |-> min_trade,
               integer |-> integer, min_trade |-> Number(min_trade)]
    IN  [o1 EXCEPT !.min_trade = Class("MinTradeSizeActionWrapper")]

MarginAccountPipe_init ==
    /\ ~pipe_obj.constructed
    /\ \E min_trade \in MinTrades, integer \in BOOLEAN :
         pipe_obj' = MarginAccountPipe_initOf(min_trade, integer)
    /\ UNCHANGED <<chain, pipe_raised, pipe_returned, min_action, step_phase,
                   step_pos, applied, obs_applied, rew_applied, signal,
                   sim_steps>>
    /\ UNCHANGED notPipe

MarginAccountPipe_pipe ==
    /\ pipe_obj.constructed
    /\ pipe_returned = "unset" /\ pipe_raised = "none"
    /\ LET r == MarginAccountPipe_pipeOf(<<>>)
       IN  /\ chain' = r.env
           /\ pipe_raised' = r.exc
           /\ pipe_returned' = r.ret
    /\ min_action' = pipe_obj.min_trade
    /\ UNCHANGED <<pipe_obj, step_phase, step_pos, applied, obs_applied,
                   rew_applied, signal, sim_steps>>
    /\ UNCHANGED notPipe

\* the agent's bounded per-asset signal
Signals == {-1, 0, 1}

\* step(action) on the outermost wrapper of the stack pipe() assembled
Env_step ==
    /\ chain # <<>>
    /\ step_phase = "idle"
    /\ sim_steps < MaxSimSteps
    /\ \E a \in Signals : signal' = a
    /\ step_phase' = "down"
    /\ step_pos' = Len(chain)
    /\ applied' = <<>>
    /\ obs_applied' = <<>>
    /\ rew_applied' = <<>>
    /\ UNCHANGED <<pipe_obj, chain, pipe_raised, pipe_returned, min_action,
                   sim_steps>>
    /\ UNCHANGED notPipe

\* a wrapper's step on the way in: an ActionWrapper transforms the action and
\* hands the result to the env it wraps; any other wrapper hands it on as is
Wrapper_step_action ==
    /\ step_phase = "down"
    /\ step_pos >= 1
    /\ applied' = IF chain[step_pos] \in ActionWrappers
                    THEN Append(applied, chain[step_pos])
                    ELSE applied
    /\ step_pos' = step_pos - 1
    /\ UNCHANGED <<pipe_obj, chain, pipe_raised, pipe_returned, min_action,
                   step_phase, obs_applied, rew_applied, signal, sim_steps>>
    /\ UNCHANGED notPipe

\* the base simulator receives the action
Simulator_step ==
    /\ step_phase = "down"
    /\ step_pos = 0
    /\ sim_steps' = sim_steps + 1
    /\ step_phase' = "up"
    /\ step_pos' = 1
    /\ UNCHANGED <<pipe_obj, chain, pipe_raised, pipe_returned, min_action,
                   applied, obs_applied, rew_applied, signal>>
    /\ UNCHANGED notPipe

\* a wrapper's step on the way out: an ObservationWrapper transforms the
\* observation, a RewardWrapper the reward, of the env it wraps
Wrapper_step_result ==
    /\ step_phase = "up"
    /\ step_pos <= Len(chain)
    /\ obs_applied' = IF chain[step_pos] \in ObservationWrappers
                        THEN Append(obs_applied, chain[step_pos])
                        ELSE obs_applied
    /\ rew_applied' = IF chain[step_pos] \in RewardWrappers
                        THEN Append(rew_applied, chain[step_pos])
                        ELSE rew_applied
    /\ step_pos' = step_pos + 1
    /\ UNCHANGED <<pipe_obj, chain, pipe_raised, pipe_returned, min_action,
                   step_phase, applied, signal, sim_steps>>
    /\ UNCHANGED notPipe

\* the outermost wrapper returns to the caller
Env_step_return ==
    /\ step_phase = "up"
    /\ step_pos = Len(chain) + 1
    /\ step_phase' = "idle"
    /\ UNCHANGED <<pipe_obj, chain, pipe_raised, pipe_returned, min_action,
                   step_pos, applied, obs_applied, rew_applied, signal,
                   sim_steps>>
    /\ UNCHANGED notPipe

PipeInit ==
    /\ pipe_obj = NoPipe
    /\ chain = <<>>
    /\ pipe_raised = "none"
    /\ pipe_returned = "unset"
    /\ min_action = Number(0)
    /\ step_phase = "idle"
    /\ step_pos = 0
    /\ applied = <<>>
    /\ obs_applied = <<>>
    /\ rew_applied = <<>>
    /\ signal = 0
    /\ sim_steps = 0

PipeNext ==
    \/ MarginAccountPipe_init
    \/ MarginAccountPipe_pipe
    \/ Env_step
    \/ Wrapper_step_action
    \/ Simulator_step
    \/ Wrapper_step_result
    \/ Env_step_return

\* ------------------------------------------------------------- trainer

\* how the agent's pipe was given its statistics: none, one engine for the
\* observations, one for the rewards, one each, or one engine for both
PipeConfigs == {"none", "obs", "rew", "both", "same"}

TrainArrays == {[shape |-> "()", v |-> Int2Rat(x)] : x \in {1, 4}}

NoTrainer ==
    [constructed |-> FALSE, n_async_envs |-> 0, exclusive_async_envs |-> FALSE,
     train_data_feeder |-> 0, test_data_feeder |-> 0]

\* the engines a pipe's attributes refer to (0 is None)
PipeEngines(pipe) == {pipe.observation_statistics, pipe.reward_statistics} \ {0}

\* copy.copy(pipe): a new pipe object whose attributes refer to the same engines
ShallowCopyPipe(heap, pipe) == [heap |-> heap, pipe |-> pipe]

\* copy.deepcopy(pipe): a new pipe object with its own copy of every object
\* the pipe refers to; two attributes that refer to one engine refer to one
\* copy
DeepCopyPipe(heap, pipe) ==
    LET o == pipe.observation_statistics
        r == pipe.reward_statistics
        h1 == IF o = 0 THEN heap ELSE Append(heap, heap[o])
        o2 == IF o = 0 THEN 0 ELSE Len(h1)
        h2 == IF r = 0 \/ r = o THEN h1 ELSE Append(h1, heap[r])
        r2 == IF r = 0 THEN 0 ELSE IF r = o THEN o2 ELSE Len(h2)
    IN  [heap |-> h2,
         pipe |-> [observation_statistics |-> o2, reward_statistics |-> r2]]

\* `[copy.deepcopy(self.agent.pipe) for _ in range(self.n_async_envs)]'
RECURSIVE AsyncEnvPipes(_, _, _, _)
AsyncEnvPipes(heap, ps, pipe, n) ==
    IF n = 0 THEN [heap |-> heap, pipes |-> ps]
    ELSE LET c == DeepCopyPipe(heap, pipe)
         IN  AsyncEnvPipes(c.heap, Append(ps, c.pipe), pipe, n - 1)

\* a variant that splits the data feeder in neither mode
DataFeeders_Shared(data_feeder, exclusive, n, created) ==
    [feeders |-> [i \in 1..n |-> data_feeder], created |-> created]

\* data_feeder.split(n) gives n new feeders, one per temporal shard;
\* [data_feeder] * n is a list of n references to the one feeder
DataFeeders(data_feeder, exclusive, n, created) ==
    IF exclusive
      THEN [feeders |-> [i \in 1..n |-> created + i], created |-> created + n]
      ELSE [feeders |-> [i \in 1..n |-> data_feeder], created |-> created]

\* calling a pipe object: AbstractPipe and its subclasses define no __call__
CallPipe == "TypeError"

AbstractTrainer_init ==
    /\ ~trainer.constructed
    /\ \E n \in 1..MaxEnvs, exclusive \in BOOLEAN, has_test \in BOOLEAN,
          cfg \in PipeConfigs :
         /\ trainer' = [constructed |-> TRUE, n_async_envs |-> n,
                        exclusive_async_envs |-> exclusive,
                        train_data_feeder |-> 1,
                        test_data_feeder |-> IF has_test THEN 2 ELSE 0]
         /\ n_feeders' = IF has_test THEN 2 ELSE 1
         /\ engines' = CASE cfg = "none" -> <<>>
                         [] cfg \in {"obs", "rew", "same"} ->
                                <<NewStatistics(Zero, Zero)>>
                         [] OTHER -> <<NewStatistics(Zero, Zero),
                                       NewStatistics(Zero, Zero)>>
         /\ pipes' = <<[observation_statistics |->
                            IF cfg \in {"obs", "both", "same"} THEN 1 ELSE 0,
                        reward_statistics |->
                            CASE cfg \in {"rew", "same"} -> 1
                              [] cfg = "both" -> 2
                              [] OTHER -> 0]>>
    /\ UNCHANGED <<workers, trainer_raised, updated, n_updates>>
    /\ UNCHANGED notTrain

\* _get_market_env called by train
Train_get_market_env ==
    /\ trainer.constructed
    /\ workers = <<>>
    /\ IF trainer.n_async_envs = 1
         THEN /\ workers' = <<[pipe |-> 1,
                               data_feeder |-> trainer.train_data_feeder]>>
              /\ UNCHANGED <<engines, pipes, n_feeders>>
         ELSE LET f == DataFeeders(trainer.train_data_feeder,
                                   trainer.exclusive_async_envs,
                                   trainer.n_async_envs, n_feeders)
                  c == AsyncEnvPipes(engines, <<>>, pipes[1],
                                     trainer.n_async_envs)
              IN  /\ n_feeders' = f.created
                  /\ engines' = c.heap
                  /\ pipes' = pipes \o c.pipes
                  /\ workers' = [i \in 1..trainer.n_async_envs |->
                                    [pipe |-> Len(pipes) + i,
                                     data_feeder |-> f.feeders[i]]]
    /\ trainer_raised' = CallPipe
    /\ UNCHANGED <<trainer, updated, n_updates>>
    /\ UNCHANGED notTrain

\* test: ValueError without a test data feeder, else _get_market_env called
\* by test, which uses the agent's pipe whatever n_async_envs is
Test_get_market_env ==
    /\ trainer.constructed
    /\ workers = <<>>
    /\ IF trainer.test_data_feeder = 0
         THEN /\ trainer_raised' = "ValueError"
              /\ UNCHANGED workers
         ELSE /\ workers' = <<[pipe |-> 1,
                               data_feeder |-> trainer.test_data_feeder]>>
              /\ trainer_raised' = CallPipe
    /\ UNCHANGED <<trainer, engines, pipes, n_feeders, updated, n_updates>>
    /\ UNCHANGED notTrain

\* update(array) on an engine, reached through a pipe's attribute
Pipe_statistics_update ==
    /\ n_updates < MaxPipeUpdates
    /\ \E p \in 1..Len(pipes) :
         \E e \in PipeEngines(pipes[p]), array \in TrainArrays :
           /\ engines' = [engines EXCEPT ![e] = Update(engines[e], array).s]
           /\ updated' = p
    /\ n_updates' = n_updates + 1
    /\ UNCHANGED <<trainer, pipes, n_feeders, workers, trainer_raised>>
    /\ UNCHANGED notTrain

TrainInit ==
    /\ trainer = NoTrainer
    /\ engines = <<>>
    /\ pipes = <<>>
    /\ n_feeders = 0
    /\ workers = <<>>
    /\ trainer_raised = "none"
    /\ updated = 0
    /\ n_updates = 0

TrainNext ==
    \/ AbstractTrainer_init
    \/ Train_get_market_env
    \/ Test_get_market_env
    \/ Pipe_statistics_update

\* ------------------------------------------- LiabilityInterstRewardWrapper

\* annual rates: none, the default 8% and 36%
InterestRates == {Zero, <<2, 25>>, <<9, 25>>}
Days == 1..MaxDay
Cashes == {-4500, 0, 1000}
Quantities == {-10, 0, 5}
AssetPrices == <<450, 900>>
AssetQuantities == [1..Len(AssetPrices) -> Quantities]
InterestRewards == {Int2Rat(0), Int2Rat(7)}

\* the metadata wrapper's position values: quantity x price, per asset
Positions(quantities) ==
    [i \in 1..Len(AssetPrices) |-> quantities[i] * AssetPrices[i]]

NoInterestWrapper ==
    [constructed |-> FALSE, interest_rate |-> Zero, previous_day |-> None]

NoInterestCall ==
    [called |-> FALSE, reward |-> Zero, previous_day |-> None,
     returned |-> Zero]

DailyInterestRate(w) == RDiv(w.interest_rate, Int2Rat(360))

\* abs(min(cash, 0))
CashDebt(c) == Abs(IF c < 0 THEN c ELSE 0)

\* sum(position for position, quantity in zip(...) if quantity < 0)
AssetDebt(positions, quantities) ==
    LET F[i \in 0..Len(positions)] ==
            IF i = 0 THEN 0
            ELSE F[i - 1] + (IF quantities[i] < 0 THEN positions[i] ELSE 0)
    IN  F[Len(positions)]

ComputeInterest(w, c, positions, quantities) ==
    RMul(Int2Rat(CashDebt(c) + AssetDebt(positions, quantities)),
         DailyInterestRate(w))

\* a variant that charges on every call, whatever the day
LiabilityInterestReward_EveryCall(w, current_day, c, quantities, reward) ==
    [w |-> [w EXCEPT !.previous_day = <<current_day>>],
     v |-> RSub(reward, ComputeInterest(w, c, Positions(quantities), quantities))]

\* a variant that charges on a day change but does not record the day
LiabilityInterestReward_NoRecord(w, current_day, c, quantities, reward) ==
    IF <<current_day>> # w.previous_day
      THEN [w |-> w,
            v |-> RSub(reward, ComputeInterest(w, c, Positions(quantities),
                                               quantities))]
      ELSE [w |-> w, v |-> reward]

\* LiabilityInterstRewardWrapper.reward
LiabilityInterestReward(w, current_day, c, quantities, reward) ==
    IF <<current_day>> # w.previous_day
      THEN [w |-> [w EXCEPT !.previous_day = <<current_day>>],
            v |-> RSub(reward, ComputeInterest(w, c, Positions(quantities),
                                               quantities))]
      ELSE [w |-> w, v |-> reward]

LiabilityInterstRewardWrapper_init ==
    /\ ~li.constructed
    /\ \E interest_rate \in InterestRates :
         li' = [constructed |-> TRUE, interest_rate |-> interest_rate,
                previous_day |-> None]
    /\ UNCHANGED <<day, cash, asset_quantities, li_call>>
    /\ UNCHANGED notInterest

\* reset: the wrapped env resets (its account and day start over), then the
\* wrapper records the day
LiabilityInterstRewardWrapper_reset ==
    /\ li.constructed
    /\ \E d \in Days, c \in Cashes, q \in AssetQuantities :
         /\ day' = d
         /\ cash' = c
         /\ asset_quantities' = q
         /\ li' = [li EXCEPT !.previous_day = <<d>>]
    /\ li_call' = NoInterestCall
    /\ UNCHANGED notInterest

\* a step of the wrapped env: the account trades, the day stays or advances
Account_advance ==
    /\ li.constructed
    /\ \E d \in {day, day + 1} \cap Days, c \in Cashes, q \in AssetQuantities :
         /\ day' = d
         /\ cash' = c
         /\ asset_quantities' = q
    /\ li_call' = NoInterestCall
    /\ UNCHANGED li
    /\ UNCHANGED notInterest

LiabilityInterstRewardWrapper_reward ==
    /\ li.constructed
    /\ \E reward \in InterestRewards :
         LET r == LiabilityInterestReward(li, day, cash, asset_quantities,
                                          reward)
         IN  /\ li' = r.w
             /\ li_call' = [called |-> TRUE, reward |-> reward,
                            previous_day |-> li.previous_day,
                            returned |-> r.v]
    /\ UNCHANGED <<day, cash, asset_quantities>>
    /\ UNCHANGED notInterest

InterestInit ==
    /\ li = NoInterestWrapper
    /\ day = 1
    /\ cash = 0
    /\ asset_quantities = [i \in 1..Len(AssetPrices) |-> 0]
    /\ li_call = NoInterestCall

InterestNext ==
    \/ LiabilityInterstRewardWrapper_init
    \/ LiabilityInterstRewardWrapper_reset
    \/ Account_advance
    \/ LiabilityInterstRewardWrapper_reward

\* ------------------------------------------------------- reward shapers

\* an Optional[bool] argument: None, True or False
Flags == {None, <<TRUE>>, <<FALSE>>}
Scales == {Int2Rat(-1), Int2Rat(2)}
\* excess_margin_ratio_threshold (0.2 is the default) and excess_margin_ratio
RatioThresholds == {Zero, <<1, 10>>, <<1, 5>>}
MarginRatios == {<<1, 20>>, <<1, 5>>, <<1, 2>>}
ShaperRewards == {[shape |-> "()", v |-> Int2Rat(x)] : x \in {1, 4}}
\* the dynamic shaper's multiplier, base, metric and threshold
Multipliers == {Int2Rat(-1), Int2Rat(1)}
Bases == {<<1, 2>>, Int2Rat(1), Int2Rat(2)}
Metrics == {Int2Rat(-1), Zero, <<1, 2>>, Int2Rat(1), Int2Rat(2), Int2Rat(3)}
Thresholds == {Int2Rat(-1), Zero, Int2Rat(1), Int2Rat(2)}

\* the defaults of RunningStatistics()
DefaultEpsilon == <<1, 100000000>>
DefaultClipThreshold == Inf

NoShaper ==
    [constructed |-> FALSE, kind |-> "none", use_std |-> None,
     use_min |-> None, scale |-> Zero, threshold |-> Zero,
     multiplier |-> Zero, base |-> Zero, reward_statistics |-> Unconstructed,
     seen |-> <<>>]

\* AbstractRewardShaper.__init__: the two checks on the flags, then the
\* attributes, the last of which is RunningStatistics() with its defaults
AbstractRewardShaper_initOf(obj, use_std, use_min) ==
    IF use_min # None /\ use_std # None
      THEN [obj |-> obj, exc |-> "AssertionError"]
    ELSE IF use_min = None /\ use_std = None
      THEN [obj |-> obj, exc |-> "AssertionError"]
    ELSE LET o1 == [obj EXCEPT !.use_std = use_std, !.use_min = use_min]
         IN  IF InitRaises(DefaultEpsilon, DefaultClipThreshold)
               THEN [obj |-> o1, exc |-> "AssertionError"]
               ELSE [obj |-> [o1 EXCEPT !.reward_statistics =
                                NewStatistics(DefaultEpsilon,
                                              DefaultClipThreshold)],
                     exc |-> "none"]

\* AbstractFixedRewardShaper.__init__: super().__init__(env) passes neither
\* flag on; then the same checks and attributes again, and _scale
AbstractFixedRewardShaper_initOf(obj, use_std, use_min, scale) ==
    LET r == AbstractRewardShaper_initOf(obj, None, None)
    IN  IF r.exc # "none" THEN r
        ELSE IF use_min # None /\ use_std # None
          THEN [obj |-> r.obj, exc |-> "AssertionError"]
        ELSE IF use_min = None /\ use_std = None
          THEN [obj |-> r.obj, exc |-> "AssertionError"]
        ELSE LET o1 == [r.obj EXCEPT !.use_std = use_std, !.use_min = use_min,
                                     !.scale = scale]
             IN  IF InitRaises(DefaultEpsilon, DefaultClipThreshold)
                   THEN [obj |-> o1, exc |-> "AssertionError"]
                   ELSE [obj |-> [o1 EXCEPT !.reward_statistics =
                                    NewStatistics(DefaultEpsilon,
                                                  DefaultClipThreshold)],
                         exc |-> "none"]

FixedExcessMarginRatioRewardShaper_initOf(obj, threshold, use_std, use_min, scale) ==
    LET r == AbstractFixedRewardShaper_initOf(obj, use_std, use_min, scale)
    IN  IF r.exc # "none" THEN r
        ELSE IF RLeq(threshold, Zero)
          THEN [obj |-> r.obj, exc |-> "AssertionError"]
        ELSE [obj |-> [r.obj EXCEPT !.threshold = threshold,
                                    !.kind = "fixed", !.constructed = TRUE],
              exc |-> "none"]

\* AbstractDynamicRewardShaper.__init__, which
\* DynamicExcessMarginRewardShaper.__init__ passes its arguments to
AbstractDynamicRewardShaper_initOf(obj, use_std, use_min, multiplier, base) ==
    LET r == AbstractRewardShaper_initOf(obj, use_std, use_min)
    IN  IF r.exc # "none" THEN r
        ELSE IF RLess(base, Int2Rat(1))
          THEN [obj |-> r.obj, exc |-> "AssertionError"]
        ELSE [obj |-> [r.obj EXCEPT !.multiplier = multiplier, !.base = base,
                                    !.kind = "dynamic", !.constructed = TRUE],
              exc |-> "none"]

\* FixedExcessMarginRatioRewardShaper.check_condition
FixedCheckCondition(sh, excess_margin_ratio) ==
    RLess(excess_margin_ratio, sh.threshold)

\* scale * None raises TypeError
ScaleTimes(scale, g) ==
    IF g.exc # "none" THEN g
    ELSE IF g.v = None THEN [v |-> None, exc |-> "TypeError"]
    ELSE [v |-> RMul(scale, g.v), exc |-> "none"]

\* AbstractRewardShaper.shape_reward
ShapeReward(sh) ==
    IF sh.use_min # None
      THEN (IF sh.use_min[1]
              THEN ScaleTimes(sh.scale, GetMinimum(sh.reward_statistics))
              ELSE ScaleTimes(sh.scale, GetMaximum(sh.reward_statistics)))
    ELSE LET m == GetMean(sh.reward_statistics)
             d == GetStd(sh.reward_statistics)
         IN  IF m.exc # "none" THEN m
             ELSE IF d.exc # "none" THEN d
             ELSE [v |-> RAdd(m.v, RMul(sh.scale, d.v)), exc |-> "none"]

\* AbstractRewardShaper.step on a fixed shaper: update the engine with the
\* reward, then, if the condition holds, reward() (which tests the condition
\* again) replaces the reward by shape_reward()
AbstractRewardShaper_step(sh, reward, excess_margin_ratio) ==
    LET u == Update(sh.reward_statistics, reward)
        s1 == [sh EXCEPT !.reward_statistics = u.s,
                         !.seen = Append(sh.seen, reward.v)]
    IN  IF u.exc # "none" THEN [sh |-> s1, v |-> None, exc |-> u.exc]
        ELSE IF FixedCheckCondition(s1, excess_margin_ratio)
          THEN [sh |-> s1, v |-> ShapeReward(s1).v, exc |-> ShapeReward(s1).exc]
        ELSE [sh |-> s1, v |-> reward.v, exc |-> "none"]

\* a variant of deviation_ratio that does not floor the ratio at 0
DeviationRatio_Unfloored(metric, threshold) ==
    IF ~RLess(Zero, threshold) THEN [v |-> None, exc |-> "AssertionError"]
    ELSE IF ~RLeq(Zero, metric) THEN [v |-> None, exc |-> "AssertionError"]
    ELSE [v |-> RDiv(metric, threshold), exc |-> "none"]

\* AbstractDynamicRewardShaper.deviation_ratio
DeviationRatio(metric, threshold) ==
    IF ~RLess(Zero, threshold) THEN [v |-> None, exc |-> "AssertionError"]
    ELSE IF ~RLeq(Zero, metric) THEN [v |-> None, exc |-> "AssertionError"]
    ELSE LET ratio == RDiv(metric, threshold)
         IN  [v |-> IF RLess(Int2Rat(1), ratio) THEN ratio ELSE Zero,
              exc |-> "none"]

\* AbstractDynamicRewardShaper.check_condition
DynamicCheckCondition(metric, threshold) ==
    LET d == DeviationRatio(metric, threshold)
    IN  IF d.exc # "none" THEN [v |-> FALSE, exc |-> d.exc]
        ELSE [v |-> RLess(Int2Rat(1), d.v), exc |-> "none"]

NoShaperCall ==
    [kind |-> "none", use_std |-> None, use_min |-> None, scale |-> Zero,
     threshold |-> Zero, multiplier |-> Zero, base |-> Zero, exc |-> "none"]

NoRatioCall ==
    [called |-> FALSE, metric |-> Zero, threshold |-> Zero, ratio |-> None,
     ratio_exc |-> "none", shapes |-> FALSE, shapes_exc |-> "none"]

FixedExcessMarginRatioRewardShaper_init ==
    /\ ~shaper.constructed
    /\ \E threshold \in RatioThresholds, use_std \in Flags, use_min \in Flags,
          scale \in Scales :
         LET r == FixedExcessMarginRatioRewardShaper_initOf(
                      NoShaper, threshold, use_std, use_min, scale)
         IN  /\ shaper' = IF r.exc = "none" THEN r.obj ELSE shaper
             /\ shaper_ctor' = [NoShaperCall EXCEPT
                                  !.kind = "fixed", !.use_std = use_std,
                                  !.use_min = use_min, !.scale = scale,
                                  !.threshold = threshold, !.exc = r.exc]
    /\ UNCHANGED <<dr_call, dm_call>>
    /\ UNCHANGED notShaper

DynamicExcessMarginRewardShaper_init ==
    /\ ~shaper.constructed
    /\ \E use_std \in Flags, use_min \in Flags, multiplier \in Multipliers,
          base \in Bases :
         LET r == AbstractDynamicRewardShaper_initOf(
                      NoShaper, use_std, use_min, multiplier, base)
         IN  /\ shaper' = IF r.exc = "none" THEN r.obj ELSE shaper
             /\ shaper_ctor' = [NoShaperCall EXCEPT
                                  !.kind = "dynamic", !.use_std = use_std,
                                  !.use_min = use_min,
                                  !.multiplier = multiplier, !.base = base,
                                  !.exc = r.exc]
    /\ UNCHANGED <<dr_call, dm_call>>
    /\ UNCHANGED notShaper

\* deviation_ratio and check_condition, evaluated on the values the metric
\* and threshold properties return
AbstractDynamicRewardShaper_check_condition ==
    /\ \E metric \in Metrics, threshold \in Thresholds :
         LET d == DeviationRatio(metric, threshold)
             c == DynamicCheckCondition(metric, threshold)
         IN  dr_call' = [called |-> TRUE, metric |-> metric,
                         threshold |-> threshold, ratio |-> d.v,
                         ratio_exc |-> d.exc, shapes |-> c.v,
                         shapes_exc |-> c.exc]
    /\ UNCHANGED <<shaper, shaper_ctor, dm_call>>
    /\ UNCHANGED notShaper

\* the excess margin ratios of the account, 0 included
ExcessMarginRatios == MarginRatios \cup {Zero}

\* the attributes the constructors of DynamicExcessMarginRewardShaper assign
DynamicShaperAttributes(use_std, use_min, multiplier, base) ==
    [use_std |-> use_std, use_min |-> use_min, multiplier |-> multiplier,
     base |-> base]

\* Python's 1 / x
Reciprocal(x) ==
    IF x = Zero THEN [v |-> None, exc |-> "ZeroDivisionError"]
    ELSE [v |-> <<RDiv(Int2Rat(1), x)>>, exc |-> "none"]

\* self.excess_margin_ratio_threshold
ExcessMarginRatioThreshold(self) ==
    IF "excess_margin_ratio_threshold" \in DOMAIN self
      THEN [v |-> <<self["excess_margin_ratio_threshold"]>>, exc |-> "none"]
      ELSE [v |-> None, exc |-> "AttributeError"]

\* DynamicExcessMarginRewardShaper.threshold
ExcessMarginThreshold(self) ==
    LET a == ExcessMarginRatioThreshold(self)
    IN  IF a.exc # "none" THEN a ELSE Reciprocal(a.v[1])

\* DynamicExcessMarginRewardShaper.metric
ExcessMarginMetric(excess_margin_ratio) == Reciprocal(excess_margin_ratio)

\* check_condition of the dynamic margin shaper: deviation_ratio reads the
\* threshold first, then the metric
ExcessMarginCheckCondition(self, excess_margin_ratio) ==
    LET t == ExcessMarginThreshold(self)
        m == ExcessMarginMetric(excess_margin_ratio)
    IN  IF t.exc # "none" THEN [v |-> FALSE, exc |-> t.exc]
        ELSE IF ~RLess(Zero, t.v[1])
               THEN [v |-> FALSE, exc |-> "AssertionError"]
        ELSE IF m.exc # "none" THEN [v |-> FALSE, exc |-> m.exc]
        ELSE DynamicCheckCondition(m.v[1], t.v[1])

NoMarginCall ==
    [called |-> FALSE, ratio |-> Zero, threshold |-> None, shapes |-> FALSE,
     exc |-> "none"]

\* check_condition on an object that carries what the constructors assign
\* from the arguments of the last constructor call
DynamicExcessMarginRewardShaper_check_condition ==
    /\ shaper_ctor.kind = "dynamic"
    /\ \E excess_margin_ratio \in ExcessMarginRatios :
         LET self == DynamicShaperAttributes(
                         shaper_ctor.use_std, shaper_ctor.use_min,
                         shaper_ctor.multiplier, shaper_ctor.base)
             c == ExcessMarginCheckCondition(self, excess_margin_ratio)
         IN  dm_call' = [called |-> TRUE, ratio |-> excess_margin_ratio,
                         threshold |-> ExcessMarginRatioThreshold(self).v,
                         shapes |-> c.v, exc |-> c.exc]
    /\ UNCHANGED <<shaper, shaper_ctor, dr_call>>
    /\ UNCHANGED notShaper

ShaperInit ==
    /\ shaper = NoShaper
    /\ shaper_ctor = NoShaperCall
    /\ dr_call = NoRatioCall
    /\ dm_call = NoMarginCall

ShaperNext ==
    \/ FixedExcessMarginRatioRewardShaper_init
    \/ DynamicExcessMarginRewardShaper_init
    \/ AbstractDynamicRewardShaper_check_condition
    \/ DynamicExcessMarginRewardShaper_check_condition

\* ------------------------------------------------- reward stages, chained

\* the account states the env's reset and step leave: <<cash, quantities>>
StageAccounts ==
    {<<0, <<0, 0>>>>, <<-4500, <<0, 0>>>>, <<1000, <<5, -10>>>>}

\* the account the stages read through market_metadata_wrapper
Account ==
    [cash |-> cash, asset_quantities |-> asset_quantities,
     positions |-> Positions(asset_quantities),
     equity_history |-> equity_history]

\* equity = cash + position values
EquityOf(c, quantities) ==
    LET positions == Positions(quantities)
        F[i \in 0..Len(positions)] ==
            IF i = 0 THEN 0 ELSE F[i - 1] + positions[i]
    IN  c + F[Len(positions)]

\* RewardGeneratorWrapper.reward on the account: reads equity_history
GeneratorStage(account, reward) ==
    [account |-> account,
     r |-> RewardGeneratorReward(account.equity_history, reward)]

\* a variant that takes the interest out of the cash too
InterestStage_DebitCash(w, account, current_day, reward) ==
    LET r == LiabilityInterestReward(w, current_day, account.cash,
                                     account.asset_quantities, reward)
    IN  [account |-> IF r.v = reward THEN account
                     ELSE [account EXCEPT !.cash = @ - 1],
         w |-> r.w, v |-> r.v]

\* LiabilityInterstRewardWrapper.reward on the account: reads cash, positions
\* and asset_quantities
InterestStage(w, account, current_day, reward) ==
    LET r == LiabilityInterestReward(w, current_day, account.cash,
                                     account.asset_quantities, reward)
    IN  [account |-> account, w |-> r.w, v |-> r.v]

\* RewardNormalizerWrapper.reward on the account: reads nothing of it
NormalizerStage(s, account, reward) ==
    LET r == NormalizerReward(s, [shape |-> "()", v |-> reward])
    IN  [account |-> account, s |-> r.s, v |-> r.v, exc |-> r.exc]

\* the generator, the interest wrapper and the normalizer are constructed
\* around the env
RewardStages_init ==
    /\ rw_stage = "none"
    /\ \E interest_rate \in InterestRates, epsilon \in Epsilons,
          clip_threshold \in ClipThresholds :
         /\ ~InitRaises(epsilon, clip_threshold)
         /\ li' = [constructed |-> TRUE, interest_rate |-> interest_rate,
                   previous_day |-> None]
         /\ stats' = NewStatistics(epsilon, clip_threshold)
    /\ rw_stage' = "unreset"
    /\ UNCHANGED <<rw_reward, rw_before, rw_steps>>
    /\ UNCHANGED <<equity_history, day, cash, asset_quantities>>
    /\ UNCHANGED notStages

\* reset: the account starts over with one entry in the history, and the
\* interest wrapper records the day
RewardStages_reset ==
    /\ rw_stage \in {"unreset", "env"}
    /\ \E d \in Days, a \in StageAccounts :
         /\ day' = d
         /\ cash' = a[1]
         /\ asset_quantities' = a[2]
         /\ equity_history' = <<EquityOf(a[1], a[2])>>
         /\ li' = [li EXCEPT !.previous_day = <<d>>]
    /\ rw_before' = <<Account'>>
    /\ rw_stage' = "env"
    /\ rw_reward' = None
    /\ UNCHANGED <<rw_steps, stats>>
    /\ UNCHANGED notStages

\* the env's step: the account trades and appends the new equity, the day
\* stays or advances; the env's own reward goes to the stages
RewardStages_env_step ==
    /\ rw_stage = "env"
    /\ rw_steps < MaxStageSteps
    /\ \E d \in {day, day + 1} \cap Days, a \in StageAccounts :
         /\ day' = d
         /\ cash' = a[1]
         /\ asset_quantities' = a[2]
         /\ equity_history' = Append(equity_history, EquityOf(a[1], a[2]))
    /\ rw_before' = <<Account'>>
    /\ rw_stage' = "generator"
    /\ rw_reward' = <<Zero>>
    /\ rw_steps' = rw_steps + 1
    /\ UNCHANGED <<li, stats>>
    /\ UNCHANGED notStages

RewardStages_generator ==
    /\ rw_stage = "generator"
    /\ LET g == GeneratorStage(Account, rw_reward[1])
       IN  /\ cash' = g.account.cash
           /\ asset_quantities' = g.account.asset_quantities
           /\ equity_history' = g.account.equity_history
           /\ rw_reward' = IF g.r.exc = "none" THEN <<Int2Rat(g.r.v[1])>>
                           ELSE None
           /\ rw_stage' = IF g.r.exc = "none" THEN "interest" ELSE "env"
    /\ UNCHANGED <<day, li, stats, rw_before, rw_steps>>
    /\ UNCHANGED notStages

RewardStages_interest ==
    /\ rw_stage = "interest"
    /\ LET i == InterestStage(li, Account, day, rw_reward[1])
       IN  /\ cash' = i.account.cash
           /\ asset_quantities' = i.account.asset_quantities
           /\ equity_history' = i.account.equity_history
           /\ li' = i.w
           /\ rw_reward' = <<i.v>>
    /\ rw_stage' = "normalizer"
    /\ UNCHANGED <<day, stats, rw_before, rw_steps>>
    /\ UNCHANGED notStages

\* the outermost stage; what it raises ends the step
RewardStages_normalizer ==
    /\ rw_stage = "normalizer"
    /\ LET n == NormalizerStage(stats, Account, rw_reward[1])
       IN  /\ cash' = n.account.cash
           /\ asset_quantities' = n.account.asset_quantities
           /\ equity_history' = n.account.equity_history
           /\ stats' = n.s
           /\ rw_reward' = IF n.exc = "none" THEN <<n.v>> ELSE None
    /\ rw_stage' = "env"
    /\ UNCHANGED <<day, li, rw_before, rw_steps>>
    /\ UNCHANGED notStages

StagesInit ==
    /\ rw_stage = "none"
    /\ rw_reward = None
    /\ rw_before = None
    /\ rw_steps = 0

StagesNext ==
    \/ RewardStages_init
    \/ RewardStages_reset
    \/ RewardStages_env_step
    \/ RewardStages_generator
    \/ RewardStages_interest
    \/ RewardStages_normalizer

\* ------------------------------------------------------- AbstractTrader

notTrader == <<statsVars, dequeVars, genVars, pipeVars, trainVars, interestVars,
               shaperVars, episodeVars, stageVars>>

TradeDays == 1..MaxTradeDay
TradeTimes == 0..MaxTradeTime

\* the schedule's row of a day: <<start, end>>, the same on every day
Schedules == {se \in TradeTimes \X TradeTimes : se[1] <= se[2]}

NoTrader ==
    [constructed |-> FALSE, handle_non_trade_time |-> FALSE,
     schedule |-> <<0, 0>>]

NoCheck ==
    [called |-> FALSE, outside |-> FALSE, cancelled |-> FALSE,
     returned |-> None, exc |-> "none"]

\* datetime.utcnow()
UtcNow(c) == [kind |-> "datetime", day |-> c[1], time |-> c[2]]

\* x.date(): a datetime has the method, a date has not
DateOf(x) ==
    IF x.kind = "datetime"
      THEN [v |-> <<[kind |-> "date", day |-> x.day, time |-> 0]>>,
            exc |-> "none"]
      ELSE [v |-> None, exc |-> "AttributeError"]

\* lines 292-304, once current_time, start and end are known
CheckTimeBody(t, current_time, start, end) ==
    IF ~(start <= current_time /\ current_time <= end)
      THEN IF t.handle_non_trade_time
             THEN [t |-> [t EXCEPT !.handle_non_trade_time = FALSE],
                   cancelled |-> TRUE, v |-> <<FALSE>>, exc |-> "none"]
             ELSE [t |-> t, cancelled |-> FALSE, v |-> <<FALSE>>,
                   exc |-> "none"]
      ELSE [t |-> [t EXCEPT !.handle_non_trade_time = TRUE],
            cancelled |-> FALSE, v |-> <<TRUE>>, exc |-> "none"]

\* AbstractTrader._check_time: current_time is the date of utcnow(), and
\* current_day is current_time.date()
CheckTime(t, c) ==
    LET current_time == DateOf(UtcNow(c))
        current_day == IF current_time.exc = "none"
                         THEN DateOf(current_time.v[1]) ELSE current_time
    IN  IF current_time.exc # "none"
          THEN [t |-> t, cancelled |-> FALSE, v |-> None,
                exc |-> current_time.exc]
        ELSE IF current_day.exc # "none"
          THEN [t |-> t, cancelled |-> FALSE, v |-> None,
                exc |-> current_day.exc]
        ELSE CheckTimeBody(t, current_time.v[1].time, t.schedule[1],
                           t.schedule[2])

AbstractTrader_init ==
    /\ ~trader.constructed
    /\ \E schedule \in Schedules, c \in TradeDays \X TradeTimes :
         /\ trader' = [constructed |-> TRUE, handle_non_trade_time |-> FALSE,
                       schedule |-> schedule]
         /\ clock' = c
    /\ UNCHANGED ct_call
    /\ UNCHANGED notTrader

\* time passes, within the day or into the next
Clock_tick ==
    /\ trader.constructed
    /\ \/ /\ clock[2] < MaxTradeTime
          /\ clock' = <<clock[1], clock[2] + 1>>
       \/ /\ clock[1] < MaxTradeDay
          /\ clock' = <<clock[1] + 1, 0>>
    /\ ct_call' = NoCheck
    /\ UNCHANGED trader
    /\ UNCHANGED notTrader

AbstractTrader_check_time ==
    /\ trader.constructed
    /\ LET r == CheckTime(trader, clock)
       IN  /\ trader' = r.t
           /\ ct_call' = [called |-> TRUE,
                          outside |-> ~(trader.schedule[1] <= clock[2]
                                        /\ clock[2] <= trader.schedule[2]),
                          cancelled |-> r.cancelled, returned |-> r.v,
                          exc |-> r.exc]
    /\ UNCHANGED clock
    /\ UNCHANGED notTrader

TraderInit ==
    /\ trader = NoTrader
    /\ clock = <<1, 0>>
    /\ ct_call = NoCheck

TraderNext ==
    \/ AbstractTrader_init
    \/ Clock_tick
    \/ AbstractTrader_check_time

\* ------------------------------------------------------- episode loops

\* a variant of run_episode's loop that does not break when done
AfterStep_NoBreak(done) == "loop"

\* run_episode, after env.step returned: `if done: break', else loop again
AfterStep(done) == IF done THEN "return" ELSE "loop"

\* test (lines 477-480) and train (lines 720-721) enter their loops:
\* n_warmup_episodes episodes with random actions, then n_episodes without
Loops_start ==
    /\ ep_pc = "idle"
    /\ ep_left = <<0, 0>>
    /\ ep_log = <<>>
    /\ \E n_warmup_episodes \in 0..MaxEpisodes, n_episodes \in 0..MaxEpisodes :
         /\ n_warmup_episodes + n_episodes \in 1..MaxEpisodes
         /\ ep_left' = <<n_warmup_episodes, n_episodes>>
    /\ UNCHANGED <<ep_pc, ep_random, ep_steps, ep_log>>
    /\ UNCHANGED notEpisode

\* run_episode is called for the next episode and resets the env
RunEpisode_reset ==
    /\ ep_pc = "idle"
    /\ ep_left # <<0, 0>>
    /\ ep_random' = (ep_left[1] > 0)
    /\ ep_left' = IF ep_left[1] > 0 THEN <<ep_left[1] - 1, ep_left[2]>>
                  ELSE <<ep_left[1], ep_left[2] - 1>>
    /\ ep_log' = Append(ep_log, "reset")
    /\ ep_steps' = 0
    /\ ep_pc' = "loop"
    /\ UNCHANGED notEpisode

\* one turn of `while True': the action is computed, env.step is called, and
\* the loop breaks if it returned done
RunEpisode_step ==
    /\ ep_pc = "loop"
    /\ ep_steps < MaxEpisodeSteps
    /\ \E done \in BOOLEAN :
         /\ ep_log' = Append(ep_log, IF done THEN "done" ELSE "step")
         /\ ep_pc' = IF AfterStep(done) = "return" THEN "idle" ELSE "loop"
    /\ ep_steps' = ep_steps + 1
    /\ UNCHANGED <<ep_left, ep_random>>
    /\ UNCHANGED notEpisode

EpisodeInit ==
    /\ ep_pc = "idle"
    /\ ep_left = <<0, 0>>
    /\ ep_random = FALSE
    /\ ep_steps = 0
    /\ ep_log = <<>>

EpisodeNext ==
    \/ Loops_start
    \/ RunEpisode_reset
    \/ RunEpisode_step

\* ------------------------------------------------------ specifications

Init ==
    /\ StatsInit
    /\ DequeInit
    /\ GenInit
    /\ PipeInit
    /\ TrainInit
    /\ InterestInit
    /\ ShaperInit
    /\ EpisodeInit
    /\ StagesInit
    /\ TraderInit

SpecStats == Init /\ [][StatsNext]_vars

SpecDeque == Init /\ [][DequeNext]_vars

SpecGen == Init /\ [][GenNext]_vars

SpecPipe == Init /\ [][PipeNext]_vars

SpecTrain == Init /\ [][TrainNext]_vars

SpecInterest == Init /\ [][InterestNext]_vars

SpecShaper == Init /\ [][ShaperNext]_vars

SpecEpisode == Init /\ [][EpisodeNext]_vars

SpecStages == Init /\ [][StagesNext]_vars

SpecTrader == Init /\ [][TraderNext]_vars

Next ==
    \/ StatsNext
    \/ DequeNext
    \/ GenNext
    \/ PipeNext
    \/ TrainNext
    \/ InterestNext
    \/ ShaperNext
    \/ EpisodeNext
    \/ StagesNext
    \/ TraderNext

Spec == Init /\ [][Next]_vars


\* ================================================================ claims

\* ------------------------------------------------------------------ C1
Sum(xs) ==
    LET F[i \in 0..Len(xs)] == IF i = 0 THEN Zero ELSE RAdd(F[i - 1], xs[i])
    IN  F[Len(xs)]

ArithMean(xs) == RDiv(Sum(xs), Int2Rat(Len(xs)))

SumSqDev(xs) ==
    LET m == ArithMean(xs)
    IN  Sum([i \in 1..Len(xs) |-> RMul(RSub(xs[i], m), RSub(xs[i], m))])

CallValues == [i \in 1..Len(calls) |-> calls[i].v]

SameShapeCalls == \A i \in 1..Len(calls) : calls[i].shape = calls[1].shape

\* C1: after the k-th update of a freshly constructed engine, count = k, the
\* mean is the arithmetic mean of x1..xk and M2 is their sum of squared
\* deviations from it (so std^2 = M2/(k-1) for k > 1 and std = 0 for k = 1).
C1_WelfordMatchesClosedForm ==
    (owner = "direct" /\ calls # <<>> /\ SameShapeCalls) =>
        /\ stats.count = <<Len(calls)>>
        /\ stats.mean = ArithMean(CallValues)
        /\ stats.M2 = SumSqDev(CallValues)
        /\ Variance(stats) = IF Len(calls) > 1
                               THEN RDiv(SumSqDev(CallValues),
                                         Int2Rat(Len(calls) - 1))
                               ELSE Zero

\* ------------------------------------------------------------------ C2
\* C2: after any sequence of append and clear operations the buffer's length
\* is 0 (nothing appended since construction or the last clear) or exactly
\* its capacity N, and an append on an empty buffer puts the appended value
\* into all N slots.
C2_LengthZeroOrCapacity ==
    fd.constructed =>
        /\ Len(fd.buffer) \in {0, fd.buffer_size}
        /\ (appended = <<>> => fd.buffer = <<>>)
        /\ (appended # <<>> => Len(fd.buffer) = fd.buffer_size)
        /\ (Len(appended) = 1 =>
               \A i \in 1..fd.buffer_size : fd.buffer[i] = appended[1])

C2_Witness ==
    /\ fd.constructed
    /\ clears >= 1
    /\ fd.buffer_size = 3
    /\ appended = <<7>>
    /\ fd.buffer = <<7, 7, 7>>

\* ------------------------------------------------------------------ C3
Copies(x, n) == [i \in 1..n |-> x]

LastN(s, n) == SubSeq(s, Len(s) - n + 1, Len(s))

\* C3: after a bootstrap append of a followed by appends y1..yk the content
\* is the last N elements of (N copies of a, y1, ..., yk), in that order: each
\* append on a non-empty buffer drops the oldest item and places the new one
\* last.
C3_ContentIsLastN ==
    (fd.constructed /\ appended # <<>>) =>
        fd.buffer = LastN(Copies(appended[1], fd.buffer_size) \o Tail(appended),
                          fd.buffer_size)

C3_Witness ==
    /\ fd.constructed
    /\ fd.buffer_size = 3
    /\ appended = <<5, 7>>
    /\ fd.buffer = <<5, 5, 7>>

\* ------------------------------------------------------------------ C4
\* the action constraint stages in the order the specification lists them
ListedOrder ==
    <<"MinTradeSizeActionWrapper", "IntegerAssetQuantityActionWrapper",
      "PositionCloseActionWrapper", "InitialMarginActionWrapper",
      "ExcessMarginActionWrapper", "ShortingActionWrapper",
      "EquityBasedUniformActionInterpreter">>

Reverse(seq) == [i \in 1..Len(seq) |-> seq[Len(seq) - i + 1]]

IsPrefix(p, seq) == Len(p) <= Len(seq) /\ SubSeq(seq, 1, Len(p)) = p

C5_FinalClipApplied ==
    step_phase = "up" =>
        /\ applied # <<>>
        /\ applied[Len(applied)] = "ActionClipperWrapper"

\* ------------------------------------------------------------------ C6
\* multi-environment training: _get_market_env bound more than one worker
MultiEnv == Len(workers) > 1

WorkerPipes == {workers[i].pipe : i \in 1..Len(workers)}

\* what a pipe sees of its engines: count and mean of each
StatisticsView(p) ==
    [e \in PipeEngines(pipes[p]) |-> <<engines[e].count, engines[e].mean>>]

C6_OwnDeepCopy ==
    MultiEnv =>
        \A i \in 1..Len(workers) :
            /\ workers[i].pipe # 1
            /\ PipeEngines(pipes[workers[i].pipe]) \cap PipeEngines(pipes[1]) = {}
            /\ \A j \in 1..Len(workers) :
                 i # j =>
                    /\ workers[i].pipe # workers[j].pipe
                    /\ PipeEngines(pipes[workers[i].pipe])
                         \cap PipeEngines(pipes[workers[j].pipe]) = {}

C6_UpdateStaysLocal ==
    (MultiEnv /\ n_updates' = n_updates + 1 /\ updated' \in WorkerPipes) =>
        \A p \in 1..Len(pipes) :
            p # updated' => StatisticsView(p)' = StatisticsView(p)

\* C6: in multi-environment training each worker is bound to its own deep
\* copy of the agent's pipe, and an update to the engine of one worker's pipe
\* changes the count and mean of no other worker's pipe nor of the agent's.
C6_WorkerStatisticsIsolated == []C6_OwnDeepCopy /\ [][C6_UpdateStaysLocal]_vars

C6_Witness ==
    /\ Len(workers) >= 2
    /\ updated = workers[1].pipe
    /\ pipes[updated].observation_statistics # 0
    /\ engines[pipes[updated].observation_statistics].count = <<1>>
    /\ engines[pipes[workers[2].pipe].observation_statistics].count = None
    /\ engines[pipes[1].observation_statistics].count = None

\* ------------------------------------------------------------------ C7
DistinctPipesAndEngines(i, j) ==
    /\ workers[i].pipe # workers[j].pipe
    /\ PipeEngines(pipes[workers[i].pipe])
         \cap PipeEngines(pipes[workers[j].pipe]) = {}

\* C7 as claimed: for every pair of distinct workers the pipes, the statistics
\* engines and the data feeders are distinct objects, whether
\* exclusive_envs is True or False.
C7_NothingShared ==
    MultiEnv =>
        \A i, j \in 1..Len(workers) :
            i # j => /\ DistinctPipesAndEngines(i, j)
                     /\ workers[i].data_feeder # workers[j].data_feeder

\* C7 as amended: the pipes and the statistics engines of two workers are
\* distinct objects in both modes; their data feeders are distinct when
\* exclusive_envs is True, and are the one train data feeder when it is False.
C7_OnlyFeederSharedWhenNotExclusive ==
    MultiEnv =>
        \A i, j \in 1..Len(workers) :
            i # j =>
                /\ DistinctPipesAndEngines(i, j)
                /\ trainer.exclusive_async_envs =>
                       workers[i].data_feeder # workers[j].data_feeder
                /\ ~trainer.exclusive_async_envs =>
                       /\ workers[i].data_feeder = trainer.train_data_feeder
                       /\ workers[j].data_feeder = trainer.train_data_feeder

C7_Witness ==
    /\ Len(workers) >= 2
    /\ ~trainer.exclusive_async_envs
    /\ workers[1].data_feeder = workers[2].data_feeder
    /\ workers[1].pipe # workers[2].pipe
    /\ pipes[workers[1].pipe].observation_statistics
         # pipes[workers[2].pipe].observation_statistics

\* ------------------------------------------------------------------ C8
\* C8: whenever equity_history has at least two entries the reward generator
\* returns exactly equity_history[-1] - equity_history[-2], whatever reward
\* it was passed.
C8_RewardIsLastEquityDelta ==
    (gen_called /\ Len(equity_history) >= 2) =>
        /\ gen_raised = "none"
        /\ gen_reward = <<equity_history[Len(equity_history)]
                          - equity_history[Len(equity_history) - 1]>>

C8_Witness ==
    /\ gen_called
    /\ equity_history = <<1000, 1050>>
    /\ gen_in = <<7>>
    /\ gen_reward = <<50>>

\* ------------------------------------------------------------------ C9
\* C9: when equity_history has exactly one entry (the first step after a
\* reset) the reward generator returns 0 and does not fail.
C9_FirstStepRewardIsZero ==
    (gen_called /\ Len(equity_history) = 1) =>
        /\ gen_raised = "none"
        /\ gen_reward = <<0>>

\* ----------------------------------------------------------------- C10
\* C10: every step of the reward normalizer updates its engine exactly once
\* with the reward it receives and returns that reward normalized with the
\* statistics that include it; after k steps the engine's count is k.
C10_NormalizerUpdatesOncePerStep ==
    (owner = "normalizer" /\ steps >= 1) =>
        /\ raised = "none"
        /\ stats.count = <<steps>>
        /\ returned = Normalize(stats, calls[Len(calls)]).v

\* ----------------------------------------------------------------- C11
SeqMin(xs) ==
    LET F[i \in 1..Len(xs)] == IF i = 1 THEN xs[1] ELSE RMin(F[i - 1], xs[i])
    IN  F[Len(xs)]

SeqMax(xs) ==
    LET F[i \in 1..Len(xs)] == IF i = 1 THEN xs[1] ELSE RMax(F[i - 1], xs[i])
    IN  F[Len(xs)]

\* the last constructor call asked for a fixed shaper with these flags and a
\* positive excess margin ratio threshold
FixedRequested(use_std, use_min) ==
    /\ shaper_ctor.kind = "fixed"
    /\ shaper_ctor.use_std = use_std
    /\ shaper_ctor.use_min = use_min
    /\ RLess(Zero, shaper_ctor.threshold)

\* the rewards the shaper has seen once it has been passed this one
SeenWith(reward) == Append(shaper.seen, reward.v)

\* C11: the fixed excess-margin shaper constructed with use_min=True returns,
\* on every step where excess_margin_ratio < threshold, scale x the minimum
\* of all raw rewards it has seen so far (the current one included), and on
\* every other step the raw reward unchanged.
C11_MinimumShapedBelowThreshold ==
    FixedRequested(None, <<TRUE>>) =>
        /\ shaper_ctor.exc = "none"
        /\ shaper.constructed
        /\ \A reward \in ShaperRewards, ratio \in MarginRatios :
             LET r == AbstractRewardShaper_step(shaper, reward, ratio)
             IN  /\ r.exc = "none"
                 /\ r.v = IF RLess(ratio, shaper.threshold)
                             THEN RMul(shaper.scale, SeqMin(SeenWith(reward)))
                             ELSE reward.v

\* ----------------------------------------------------------------- C12
\* C12: a fixed shaper constructed with use_min=False returns, whenever the
\* shaping condition holds, scale x the maximum of all raw rewards it has
\* seen so far; one constructed with use_std set returns
\* running_mean + scale x running_std.
C12_MaximumOrStdShaped ==
    /\ FixedRequested(None, <<FALSE>>) =>
        /\ shaper_ctor.exc = "none"
        /\ shaper.constructed
        /\ \A reward \in ShaperRewards, ratio \in MarginRatios :
             RLess(ratio, shaper.threshold) =>
                 AbstractRewardShaper_step(shaper, reward, ratio).v =
                     RMul(shaper.scale, SeqMax(SeenWith(reward)))
    /\ (FixedRequested(<<TRUE>>, None) \/ FixedRequested(<<FALSE>>, None)) =>
        /\ shaper_ctor.exc = "none"
        /\ shaper.constructed
        /\ \A reward \in ShaperRewards, ratio \in MarginRatios :
             RLess(ratio, shaper.threshold) =>
                 AbstractRewardShaper_step(shaper, reward, ratio).v =
                     LET xs == SeenWith(reward)
                         var == IF Len(xs) > 1
                                  THEN RDiv(SumSqDev(xs), Int2Rat(Len(xs) - 1))
                                  ELSE Zero
                     IN  RAdd(ArithMean(xs), RMul(shaper.scale, Sqrt(var)))

\* ----------------------------------------------------------------- C13
ExactlyOneFlag ==
    (shaper_ctor.use_std = None) # (shaper_ctor.use_min = None)

\* the arguments other than the flags are valid
OtherArgumentsValid ==
    IF shaper_ctor.kind = "fixed" THEN RLess(Zero, shaper_ctor.threshold)
    ELSE RLeq(Int2Rat(1), shaper_ctor.base)

\* C13: constructing a reward shaper (fixed or dynamic) succeeds when exactly
\* one of use_std / use_min is set, and fails with a configuration error
\* when both are set or neither is set.
C13_ExactlyOneFlagAccepted ==
    shaper_ctor.kind # "none" =>
        /\ (ExactlyOneFlag /\ OtherArgumentsValid) => shaper_ctor.exc = "none"
        /\ ~ExactlyOneFlag => shaper_ctor.exc = "AssertionError"

\* ----------------------------------------------------------------- C14
\* the assets held short
ShortAssets == {i \in 1..Len(AssetPrices) : asset_quantities[i] < 0}

RECURSIVE SumOver(_, _)
SumOver(f, S) ==
    IF S = {} THEN 0
    ELSE LET i == CHOOSE j \in S : TRUE IN f[i] + SumOver(f, S \ {i})

\* (cash_debt + asset_debt) x interest_rate / 360 on the current account
ClaimedInterest ==
    LET cash_debt == IF -cash > 0 THEN -cash ELSE 0
        asset_debt == SumOver(Positions(asset_quantities), ShortAssets)
    IN  RDiv(RMul(Int2Rat(cash_debt + asset_debt), li.interest_rate),
             Int2Rat(360))

\* C14: when the liability interest stage processes a step whose current day
\* differs from the previously recorded day it returns
\* reward - (cash_debt + asset_debt) x interest_rate/360, with
\* cash_debt = max(-cash, 0) and asset_debt the sum of the position values of
\* the assets with negative quantity; when the day is unchanged it returns
\* the reward unchanged.
C14_InterestChargedOnDayChange ==
    li_call.called =>
        li_call.returned =
            IF li_call.previous_day # <<day>>
              THEN RSub(li_call.reward, ClaimedInterest)
              ELSE li_call.reward

\* a day change with borrowed cash (4500) and a short asset (position value
\* -10 x 900): 7 - (4500 - 9000) x 0.08/360 = 8
C14_Witness ==
    /\ li_call.called
    /\ li_call.previous_day = <<1>>
    /\ day = 2
    /\ cash = -4500
    /\ asset_quantities = <<5, -10>>
    /\ li.interest_rate = <<2, 25>>
    /\ li_call.reward = Int2Rat(7)
    /\ li_call.returned = Int2Rat(8)

\* ----------------------------------------------------------------- C15
\* metric and threshold are in the ranges their properties document
ValidMetric == RLeq(Zero, dr_call.metric) /\ RLess(Zero, dr_call.threshold)

C16_ReadWithoutUpdateFails ==
    (read.attr # "none" /\ succeeded = 0) => read.exc # "none"

\* ----------------------------------------------------------------- C17

\* the step is an update call whose shape differs from the first update's
MismatchedUpdate ==
    /\ calls # <<>>
    /\ Len(calls') = Len(calls) + 1
    /\ calls'[Len(calls')].shape # calls[1].shape

\* C17: an update whose value shape differs from the shape of the engine's
\* first update fails with an error and leaves count, mean, M2, minimum and
\* maximum exactly as they were before the call.
C17_ShapeMismatchLeavesState ==
    [][MismatchedUpdate =>
         /\ raised' = "AssertionError"
         /\ stats'.count = stats.count
         /\ stats'.mean = stats.mean
         /\ stats'.M2 = stats.M2
         /\ stats'.minimum = stats.minimum
         /\ stats'.maximum = stats.maximum]_vars

\* two updates of one shape, then one of the other shape, which was refused
C17_Witness ==
    /\ Len(calls) = 3
    /\ calls[2].shape = calls[1].shape
    /\ calls[3].shape # calls[1].shape
    /\ raised = "AssertionError"
    /\ stats.count = <<1>>
    /\ stats.mean = calls[2].v

\* ----------------------------------------------------------------- C18
\* C18: constructing an engine fails with a configuration error when
\* epsilon <= 0 or clip_threshold <= 0, and succeeds when both are > 0
\* (the defaults epsilon = 1e-8 and clip_threshold = infinity included).
C18_ConstructorValidates ==
    ctor # None =>
        (ctor[1].exc # "none" <=>
            (RLeq(ctor[1].epsilon, Zero) \/ RLeq(ctor[1].clip_threshold, Zero)))

\* ----------------------------------------------------------------- C19
\* C19: after any non-empty sequence of updates the engine's minimum is the
\* smallest and its maximum the largest of the values passed to update so
\* far (after the first update x both equal x).
C19_ExtremesAreMinAndMax ==
    (calls # <<>> /\ SameShapeCalls) =>
        /\ read.attr = "minimum" =>
             (read.exc = "none" /\ read.v = SeqMin(CallValues))
        /\ read.attr = "maximum" =>
             (read.exc = "none" /\ read.v = SeqMax(CallValues))

\* ----------------------------------------------------------------- C20
\* the value v clamped to the interval [lo, hi]
Clamp(v, lo, hi) == IF RLess(v, lo) THEN lo ELSE IF RLess(hi, v) THEN hi ELSE v

\* a number (not nan) inside [lo, hi]
Within(v, lo, hi) == v # NaN /\ v # None /\ RLeq(lo, v) /\ RLeq(v, hi)

\* C20: for an engine with at least one update, normalize(x) is
\* (x - mean)/(std + epsilon) clamped to [-clip_threshold, clip_threshold]:
\* the result never lies outside that interval, and normalize(mean) is 0.
C20_NormalizeIsClampedZScore ==
    (read.attr = "normalize" /\ calls # <<>> /\ ~NotCount(stats)) =>
        /\ read.exc = "none"
        /\ Within(read.v, RNeg(stats.clip_threshold), stats.clip_threshold)
        /\ read.v = Clamp(NpDiv(RSub(read.x.v, stats.mean),
                                RAdd(Sqrt(Variance(stats)), stats.epsilon)),
                          RNeg(stats.clip_threshold), stats.clip_threshold)
        /\ read.x.v = stats.mean => read.v = Zero

\* ----------------------------------------------------------------- C24
\* C24 as claimed: constructing a Fill Buffer with capacity N < 1 (0 or
\* negative) is rejected with an error; no buffer with capacity below 1
\* exists and accepts appends.
C24_CapacityBelowOneRejected ==
    /\ (fd_arg # None /\ fd_arg[1] < 1) => fd_raised # "none"
    /\ fd.constructed => fd.buffer_size >= 1

\* C24 as amended: a negative capacity is rejected with an error; capacity 0
\* is accepted, and the buffer of capacity 0 accepts appends and stays empty.
C24_OnlyNegativeCapacityRejected ==
    /\ fd_arg # None => (fd_raised # "none" <=> fd_arg[1] < 0)
    /\ fd.constructed => fd.buffer_size >= 0
    /\ (fd.constructed /\ fd.buffer_size = 0) => fd.buffer = <<>>

\* a buffer of capacity 0 that has taken two appends
C24_Witness ==
    /\ fd_arg = <<0>>
    /\ fd.constructed
    /\ fd.buffer_size = 0
    /\ Len(appended) = 2
    /\ fd.buffer = <<>>

\* ----------------------------------------------------------------- C21
\* the observation stages in the order the specification fixes
ObservationOrder ==
    <<"FlattenToNUmpyObservationWrapper", "ObservationBufferWrapper",
      "ObservationStackerWrapper", "ObservationNormalizerWrapper">>

\* the step's results have passed every wrapper of the stack
StepResultsComplete == step_phase = "up" /\ step_pos = Len(chain) + 1

\* C21: every raw observation is processed by flatten, then buffer, then
\* stack, then normalize, the normalizer being the last stage to transform
\* the observation returned to the agent.
C21_ObservationStagesInOrder ==
    /\ step_phase = "up" => IsPrefix(obs_applied, ObservationOrder)
    /\ StepResultsComplete =>
         /\ obs_applied = ObservationOrder
         /\ obs_applied[Len(obs_applied)] = "ObservationNormalizerWrapper"

C21_Witness ==
    /\ StepResultsComplete
    /\ sim_steps >= 1
    /\ Len(obs_applied) = 4
    /\ obs_applied[1] = "FlattenToNUmpyObservationWrapper"
    /\ obs_applied[4] = "ObservationNormalizerWrapper"

\* ----------------------------------------------------------------- C25
\* pipe() has been called on the pipe object
PipeCalled == chain # <<>>

\* the reward wrappers of the stack, innermost first
RewardStages == SelectSeq(chain, LAMBDA w : w \in RewardWrappers)

\* C25: MarginAccountPipe.pipe(env) returns the wrapped environment (never
\* None), and in it the reward normalizer is the outermost reward stage,
\* wrapping the reward generator.
C25_PipeReturnsNormalizedEnv ==
    PipeCalled =>
        /\ pipe_raised = "none"
        /\ pipe_returned = "env"
        /\ RewardStages # <<>>
        /\ RewardStages[1] = "RewardGeneratorWrapper"
        /\ RewardStages[Len(RewardStages)] = "RewardNormalizerWrapper"

\* ----------------------------------------------------------------- C30
\* C30: the min trade size filter of the environment the pipe builds uses as
\* its threshold the min_trade value given to the pipe's constructor.
C30_MinTradeThresholdIsConstructorValue ==
    PipeCalled => min_action = Number(pipe_obj.min_trade_arg)

\* ----------------------------------------------------------------- C22
\* C22: every episode starts with a reset, steps are issued only after that
\* reset, and once a step has returned done no further step is issued on the
\* env until the next reset.
C22_StepsOnlyBetweenResetAndDone ==
    \A i \in 1..Len(ep_log) :
        ep_log[i] # "reset" =>
            /\ i > 1
            /\ ep_log[i - 1] \in {"reset", "step"}

\* a first episode that ended after two steps, and a step of the second
C22_Witness ==
    /\ Len(ep_log) = 5
    /\ ep_log[1] = "reset"
    /\ ep_log[2] = "step"
    /\ ep_log[3] = "done"
    /\ ep_log[4] = "reset"
    /\ ep_log[5] = "step"

\* ----------------------------------------------------------------- C28
\* C28: interest is charged at most once per day change: after a call of
\* reward the recorded day is the current day, a call made on the recorded
\* day returns the reward unchanged, and reset records the day of the reset.
C28_InterestOncePerDay ==
    [][/\ li_call'.called =>
            /\ li'.previous_day = <<day'>>
            /\ li_call'.previous_day = <<day'>> =>
                   li_call'.returned = li_call'.reward
       /\ LiabilityInterstRewardWrapper_reset => li'.previous_day = <<day'>>
      ]_vars

\* a second call on a day already charged, with debt and a positive rate
C28_Witness ==
    /\ li_call.called
    /\ li_call.previous_day = <<day>>
    /\ day > 1
    /\ cash < 0
    /\ li.interest_rate # Zero
    /\ li_call.returned = li_call.reward

\* ----------------------------------------------------------------- C29
\* C29: the interest is never negative, so the stage never returns a reward
\* larger than the one it received.
C29_StageNeverRaisesReward ==
    li_call.called => RLeq(li_call.returned, li_call.reward)

\* ----------------------------------------------------------------- C23
\* C23: no reward stage modifies the account: cash, asset quantities,
\* position values and equity_history are, after every stage, what the env's
\* step or reset left.
C23_StagesLeaveAccount ==
    rw_before # None => Account = rw_before[1]

\* a step on which interest was charged and that went through every stage
C23_Witness ==
    /\ rw_stage = "env"
    /\ rw_steps > 0
    /\ rw_before # None
    /\ Len(equity_history) > 1
    /\ cash < 0
    /\ li.interest_rate # Zero
    /\ li.previous_day = <<day>>
    /\ day > 1
    /\ stats.count # None

\* ----------------------------------------------------------------- C27
\* C27: a call of _check_time at a time outside the day's trading schedule
\* cancels all open orders and returns False.
C27_OutsideScheduleCancels ==
    (ct_call.called /\ ct_call.outside) =>
        /\ ct_call.cancelled
        /\ ct_call.returned = <<FALSE>>

\* ----------------------------------------------------------------- C26
\* C26: the dynamic excess-margin shaper shapes exactly when the excess
\* margin ratio is smaller than the configured excess margin ratio
\* threshold, for every excess margin ratio >= 0.
C26_ShapesBelowConfiguredThreshold ==
    dm_call.called =>
        /\ dm_call.exc = "none"
        /\ dm_call.threshold # None
        /\ dm_call.shapes = RLess(dm_call.ratio, dm_call.threshold[1])

====
